---------------------------- MODULE Spec2Model ----------------------------
(***************************************************************************)
(* Model of src/bot.py: the inline YouTube search bot.                     *)
(*                                                                         *)
(* Text is a sequence of Unicode code points, bytes are a sequence of      *)
(* numbers in 0..255.  A Python value is a record [t, v] whose t is the    *)
(* Python type name.  The result of a call that may raise is an outcome    *)
(* record: Ok(value) or Raise(exception class).                            *)
(***************************************************************************)
EXTENDS Integers, Sequences, FiniteSets, TLC

(***************************************************************************)
(* Text literals.                                                          *)
(***************************************************************************)
\* The printable ASCII characters, code points 32..126, in order (the grave
\* accent, which a string cannot hold, by its name).
Ascii ==
    <<
       " ", "!", "\"", "#", "$", "%", "&", "'", "(", ")", "*", "+",
       ",", "-", ".", "/", "0", "1", "2", "3", "4", "5", "6", "7",
       "8", "9", ":", ";", "<", "=", ">", "?", "@", "A", "B", "C",
       "D", "E", "F", "G", "H", "I", "J", "K", "L", "M", "N", "O",
       "P", "Q", "R", "S", "T", "U", "V", "W", "X", "Y", "Z", "[",
       "\\", "]", "^", "_", "GRAVE", "a", "b", "c", "d", "e", "f", "g",
       "h", "i", "j", "k", "l", "m", "n", "o", "p", "q", "r", "s",
       "t", "u", "v", "w", "x", "y", "z", "{", "|", "}", "~"
    >>

\* ord(c) of a printable ASCII character.
Ord(c) == 31 + (CHOOSE i \in 1..Len(Ascii) : Ascii[i] = c)

\* The text (code points) of a tuple of characters.
Lit(cs) == [i \in 1..Len(cs) |-> Ord(cs[i])]

\* s[i:] and s[:n] of Python, on 1-based sequences.
From(s, i) == SubSeq(s, i, Len(s))
Take(s, n) == SubSeq(s, 1, IF n < Len(s) THEN n ELSE Len(s))

\* Whether text p occurs in s at position i.
StartsAt(s, i, p) ==
    /\ i + Len(p) - 1 <= Len(s)
    /\ \A k \in 1..Len(p) : s[i + k - 1] = p[k]

\* <<1, ..., n>>
Indices(n) == [k \in 1..n |-> k]

\* The concatenation of a sequence of sequences (by halves).
RECURSIVE Concat(_)
Concat(ss) ==
    IF ss = <<>> THEN <<>>
    ELSE IF Len(ss) = 1 THEN ss[1]
    ELSE Concat(SubSeq(ss, 1, Len(ss) \div 2)) \o
         Concat(SubSeq(ss, (Len(ss) \div 2) + 1, Len(ss)))

\* The least and the greatest number of a non-empty set of numbers.
Min(S) == CHOOSE x \in S : \A y \in S : x <= y
Max(S) == CHOOSE x \in S : \A y \in S : x >= y

(***************************************************************************)
(* Outcomes and Python values.                                             *)
(***************************************************************************)
Ok(x) == [raised |-> FALSE, exc |-> "", val |-> x]
Raise(e) == [raised |-> TRUE, exc |-> e, val |-> <<>>]

PyNone == [t |-> "NoneType", v |-> <<>>]
PyStr(s) == [t |-> "str", v |-> s]
PyBool(b) == [t |-> "bool", v |-> IF b THEN <<1>> ELSE <<0>>]
PyNum(text) == [t |-> "number", v |-> text]
PyList(xs) == [t |-> "list", v |-> xs]
PyDict(kvs) == [t |-> "dict", v |-> kvs]

\* x == y of Python, for the values above (dicts are compared as built).
PyEq(x, y) == x.t = y.t /\ x.v = y.v

\* bool(x) of Python.
Truthy(x) ==
    CASE x.t = "NoneType" -> FALSE
      [] x.t = "bool" -> x.v = <<1>>
      [] x.t = "number" -> \E k \in 1..Len(x.v) : x.v[k] \in Ord("1")..Ord("9")
      [] OTHER -> x.v # <<>>

\* dict.get(key): the value of the key, None when the key is absent.
RECURSIVE DictGet(_, _)
DictGet(kvs, key) ==
    IF kvs = <<>> THEN PyNone
    ELSE IF kvs[Len(kvs)][1] = key THEN kvs[Len(kvs)][2]
    ELSE DictGet(SubSeq(kvs, 1, Len(kvs) - 1), key)

\* key in dict.
DictHas(kvs, key) == \E k \in 1..Len(kvs) : kvs[k][1] = key

\* obj.get(key): only a dict has the method.
Get(obj, key) ==
    IF obj.t = "dict" THEN Ok(DictGet(obj.v, key)) ELSE Raise("AttributeError")

(***************************************************************************)
(* str.encode() and bytes.decode(): UTF-8, strict.                         *)
(***************************************************************************)
IsSurrogate(c) == c \in 55296..57343

Utf8Char(c) ==
    IF c < 128 THEN <<c>>
    ELSE IF c < 2048 THEN <<192 + (c \div 64), 128 + (c % 64)>>
    ELSE IF c < 65536
        THEN <<224 + (c \div 4096), 128 + ((c \div 64) % 64), 128 + (c % 64)>>
    ELSE <<240 + (c \div 262144), 128 + ((c \div 4096) % 64),
           128 + ((c \div 64) % 64), 128 + (c % 64)>>

Utf8Bytes(s) == Concat([k \in 1..Len(s) |-> Utf8Char(s[k])])

\* s.encode(): a lone surrogate cannot be encoded.
StrEncode(s) ==
    IF \E k \in 1..Len(s) : IsSurrogate(s[k])
    THEN Raise("UnicodeEncodeError")
    ELSE Ok(Utf8Bytes(s))

IsCont(b) == b \in 128..191

\* The length of the well-formed UTF-8 sequence at b[i], 0 when ill-formed.
Utf8Width(b, i) ==
    LET b0 == b[i]
        has(n) == i + n <= Len(b)
        b1 == b[i + 1]
        conts(n) == \A k \in 1..n : IsCont(b[i + k])
    IN  IF b0 < 128 THEN 1
        ELSE IF b0 \in 194..223 THEN IF has(1) /\ conts(1) THEN 2 ELSE 0
        ELSE IF b0 = 224
            THEN IF has(2) /\ b1 \in 160..191 /\ conts(2) THEN 3 ELSE 0
        ELSE IF b0 = 237
            THEN IF has(2) /\ b1 \in 128..159 /\ conts(2) THEN 3 ELSE 0
        ELSE IF b0 \in 225..239 THEN IF has(2) /\ conts(2) THEN 3 ELSE 0
        ELSE IF b0 = 240
            THEN IF has(3) /\ b1 \in 144..191 /\ conts(3) THEN 4 ELSE 0
        ELSE IF b0 \in 241..243 THEN IF has(3) /\ conts(3) THEN 4 ELSE 0
        ELSE IF b0 = 244
            THEN IF has(3) /\ b1 \in 128..143 /\ conts(3) THEN 4 ELSE 0
        ELSE 0

Utf8Point(b, i, w) ==
    CASE w = 1 -> b[i]
      [] w = 2 -> (b[i] - 192) * 64 + (b[i + 1] - 128)
      [] w = 3 -> (b[i] - 224) * 4096 + (b[i + 1] - 128) * 64 + (b[i + 2] - 128)
      [] w = 4 -> (b[i] - 240) * 262144 + (b[i + 1] - 128) * 4096
                  + (b[i + 2] - 128) * 64 + (b[i + 3] - 128)

\* The text of the bytes b whose sequences start at the positions leads:
\* each must be well formed and end where the next one starts.
Utf8Text(b, leads) ==
    LET next(j) == IF j < Len(leads) THEN leads[j + 1] ELSE Len(b) + 1
        wellFormed ==
            /\ b = <<>> \/ ~IsCont(b[1])
            /\ \A j \in 1..Len(leads) :
                  /\ Utf8Width(b, leads[j]) > 0
                  /\ leads[j] + Utf8Width(b, leads[j]) = next(j)
    IN  IF wellFormed
        THEN Ok([j \in 1..Len(leads) |-> Utf8Point(b, leads[j], next(j) - leads[j])])
        ELSE Raise("UnicodeDecodeError")

\* b.decode(): a sequence starts at every byte that is not a continuation
\* byte.
BytesDecode(b) ==
    LET lead(i) == ~IsCont(b[i]) IN Utf8Text(b, SelectSeq(Indices(Len(b)), lead))

(***************************************************************************)
(* base64.urlsafe_b64encode and base64.urlsafe_b64decode.                  *)
(***************************************************************************)
\* The standard alphabet; the URL-safe one has - for + and _ for /.
B64 ==
    Lit(<<
       "A", "B", "C", "D", "E", "F", "G", "H", "I", "J", "K", "L", "M",
       "N", "O", "P", "Q", "R", "S", "T", "U", "V", "W", "X", "Y", "Z",
       "a", "b", "c", "d", "e", "f", "g", "h", "i", "j", "k", "l", "m",
       "n", "o", "p", "q", "r", "s", "t", "u", "v", "w", "x", "y", "z",
       "0", "1", "2", "3", "4", "5", "6", "7", "8", "9", "+", "/"
    >>)

Pad == Ord("=")

\* The translation tables of the urlsafe functions.
UrlsafeEncodeChar(c) ==
    IF c = Ord("+") THEN Ord("-") ELSE IF c = Ord("/") THEN Ord("_") ELSE c
UrlsafeDecodeChar(c) ==
    IF c = Ord("-") THEN Ord("+") ELSE IF c = Ord("_") THEN Ord("/") ELSE c

\* The 6-bit value of a character of the standard alphabet, 64 for any other.
B64Table ==
    [c \in 0..255 |->
        IF \E k \in 1..64 : B64[k] = c
        THEN (CHOOSE k \in 1..64 : B64[k] = c) - 1
        ELSE 64]

B64Digit(n) == B64[n + 1]

\* binascii.b2a_base64 without the newline: three bytes to four characters,
\* the last group padded with =.
B2aBase64(b) ==
    LET n == Len(b)
        byte(k) == IF k <= n THEN b[k] ELSE 0
        char(j) ==
            LET g == 3 * ((j - 1) \div 4)
                pos == (j - 1) % 4
            IN  CASE pos = 0 -> B64Digit(byte(g + 1) \div 4)
                  [] pos = 1 ->
                        B64Digit((byte(g + 1) % 4) * 16 + (byte(g + 2) \div 16))
                  [] pos = 2 ->
                        IF g + 2 > n THEN Pad
                        ELSE B64Digit((byte(g + 2) % 16) * 4 + (byte(g + 3) \div 64))
                  [] pos = 3 ->
                        IF g + 3 > n THEN Pad ELSE B64Digit(byte(g + 3) % 64)
    IN  [j \in 1..(4 * ((n + 2) \div 3)) |-> char(j)]

urlsafe_b64encode(b) ==
    LET e == B2aBase64(b) IN [k \in 1..Len(e) |-> UrlsafeEncodeChar(e[k])]

\* The 6-bit value of a character, 64 when it is not of the alphabet.
B64Value(c) == IF c \in 0..255 THEN B64Table[c] ELSE 64

\* The bytes of the first read digits of a, which stand at the positions
\* digits: a quad left incomplete at the end of the input is an error, one
\* that padding ended gives the bytes it holds.
A2bBytes(a, digits, read, ended) ==
    LET d(j) == B64Value(a[digits[j]])
        byte(k) ==
            LET q == 4 * ((k - 1) \div 3)
                pos == (k - 1) % 3
            IN  CASE pos = 0 -> d(q + 1) * 4 + (d(q + 2) \div 16)
                  [] pos = 1 -> (d(q + 2) % 16) * 16 + (d(q + 3) \div 4)
                  [] pos = 2 -> (d(q + 3) % 4) * 64 + d(q + 4)
        count == 3 * (read \div 4) + (IF read % 4 >= 2 THEN (read % 4) - 1 ELSE 0)
    IN  IF ~ended /\ read % 4 # 0 THEN Raise("binascii.Error")
        ELSE Ok([k \in 1..count |-> byte(k)])

\* The input ends at the first of the positions done, at its end when there
\* is none.
A2bEnd(a, digits, done) ==
    LET end == IF done = {} THEN Len(a) + 1 ELSE Min(done)
    IN  A2bBytes(a, digits, Cardinality({j \in 1..Len(digits) : digits[j] < end}),
                 done # {})

\* quad_pos at a character is the number of digits before it, modulo 4.  A
\* pad read at quad_pos 2 or 3 is counted (the count restarts at every
\* digit), and the pad that completes the quad ends the input.
A2bQuads(a, digits) ==
    LET before(i) == {j \in 1..Len(digits) : digits[j] < i}
        quad_pos(i) == Cardinality(before(i)) % 4
        lastDigit(i) == IF before(i) = {} THEN 0 ELSE digits[Max(before(i))]
        pads(i) == Cardinality({k \in (lastDigit(i) + 1)..i : a[k] = Pad})
    IN  A2bEnd(a, digits, {i \in 1..Len(a) : /\ a[i] = Pad
                                              /\ quad_pos(i) >= 2
                                              /\ quad_pos(i) + pads(i) >= 4})

\* binascii.a2b_base64, not strict: characters outside the alphabet are
\* skipped.
A2bBase64(a) ==
    LET isDigit(k) == a[k] # Pad /\ B64Value(a[k]) < 64
    IN  A2bQuads(a, SelectSeq(Indices(Len(a)), isDigit))

urlsafe_b64decode(b) ==
    A2bBase64([k \in 1..Len(b) |-> UrlsafeDecodeChar(b[k])])

(***************************************************************************)
(* json.dumps (ensure_ascii, separators ", " and ": ").                    *)
(***************************************************************************)
HexDigits == Lit(<<"0", "1", "2", "3", "4", "5", "6", "7", "8", "9",
                   "a", "b", "c", "d", "e", "f">>)

\* \uXXXX of a number below 65536.
UEscape(n) ==
    Lit(<<"\\", "u">>) \o
    <<HexDigits[(n \div 4096) + 1], HexDigits[((n \div 256) % 16) + 1],
      HexDigits[((n \div 16) % 16) + 1], HexDigits[(n % 16) + 1]>>

\* The escape of one character: the short escapes, \uXXXX for what is not
\* printable ASCII, a surrogate pair above the basic plane.
EscapeChar(c) ==
    CASE c = Ord("\"") -> Lit(<<"\\", "\"">>)
      [] c = Ord("\\") -> Lit(<<"\\", "\\">>)
      [] c = 8 -> Lit(<<"\\", "b">>)
      [] c = 12 -> Lit(<<"\\", "f">>)
      [] c = 10 -> Lit(<<"\\", "n">>)
      [] c = 13 -> Lit(<<"\\", "r">>)
      [] c = 9 -> Lit(<<"\\", "t">>)
      [] c \in 32..126 /\ c # Ord("\"") /\ c # Ord("\\") -> <<c>>
      [] c >= 65536 ->
            UEscape(55296 + ((c - 65536) \div 1024)) \o
            UEscape(56320 + ((c - 65536) % 1024))
      [] OTHER -> UEscape(c)

EscapeText(s) == Concat([k \in 1..Len(s) |-> EscapeChar(s[k])])

JsonString(s) == Lit(<<"\"">>) \o EscapeText(s) \o Lit(<<"\"">>)

RECURSIVE JsonDumps(_), JsonItems(_), JsonPairs(_)
JsonDumps(x) ==
    CASE x.t = "NoneType" -> Lit(<<"n", "u", "l", "l">>)
      [] x.t = "str" -> JsonString(x.v)
      [] x.t = "bool" ->
            IF x.v = <<1>> THEN Lit(<<"t", "r", "u", "e">>)
            ELSE Lit(<<"f", "a", "l", "s", "e">>)
      [] x.t = "number" -> x.v
      [] x.t = "list" -> Lit(<<"[">>) \o JsonItems(x.v) \o Lit(<<"]">>)
      [] x.t = "dict" -> Lit(<<"{">>) \o JsonPairs(x.v) \o Lit(<<"}">>)

JsonItems(xs) ==
    IF xs = <<>> THEN <<>>
    ELSE JsonDumps(Head(xs)) \o
         (IF Len(xs) > 1 THEN Lit(<<",", " ">>) ELSE <<>>) \o JsonItems(Tail(xs))

JsonPairs(kvs) ==
    IF kvs = <<>> THEN <<>>
    ELSE JsonString(Head(kvs)[1]) \o Lit(<<":", " ">>) \o JsonDumps(Head(kvs)[2]) \o
         (IF Len(kvs) > 1 THEN Lit(<<",", " ">>) ELSE <<>>) \o JsonPairs(Tail(kvs))

(***************************************************************************)
(* json.loads: the scanner of the standard decoder.  A parse result is     *)
(* [raised, val, i]: the value and the position after it.                  *)
(***************************************************************************)
P(x, i) == [raised |-> FALSE, val |-> x, i |-> i]
PFail == [raised |-> TRUE, val |-> <<>>, i |-> 0]

IsWs(c) == c \in {32, 9, 10, 13}
IsDigit(c) == c \in Ord("0")..Ord("9")
IsHex(c) == IsDigit(c) \/ c \in Ord("a")..Ord("f") \/ c \in Ord("A")..Ord("F")
HexVal(c) ==
    IF IsDigit(c) THEN c - Ord("0")
    ELSE IF c >= Ord("a") THEN c - Ord("a") + 10 ELSE c - Ord("A") + 10

\* The first position from i on whose character is not white space,
\* Len(s) + 1 when there is none.
SkipWs(s, i) ==
    IF \A j \in i..Len(s) : IsWs(s[j]) THEN (IF i > Len(s) THEN i ELSE Len(s) + 1)
    ELSE CHOOSE j \in i..Len(s) : ~IsWs(s[j]) /\ \A k \in i..(j - 1) : IsWs(s[k])

\* The same for the digits.
SkipDigits(s, i) ==
    IF \A j \in i..Len(s) : IsDigit(s[j]) THEN (IF i > Len(s) THEN i ELSE Len(s) + 1)
    ELSE CHOOSE j \in i..Len(s) : ~IsDigit(s[j]) /\ \A k \in i..(j - 1) : IsDigit(s[k])

\* Whether s[i..i+3] are four hexadecimal digits, and their value.
Hex4At(s, i) == i + 3 <= Len(s) /\ \A k \in 0..3 : IsHex(s[i + k])
Hex4(s, i) ==
    HexVal(s[i]) * 4096 + HexVal(s[i + 1]) * 256 + HexVal(s[i + 2]) * 16
    + HexVal(s[i + 3])

\* The character of a short escape, 0 when there is none.
Unescape(c) ==
    CASE c = Ord("\"") -> Ord("\"")
      [] c = Ord("\\") -> Ord("\\")
      [] c = Ord("/") -> Ord("/")
      [] c = Ord("b") -> 8
      [] c = Ord("f") -> 12
      [] c = Ord("n") -> 10
      [] c = Ord("r") -> 13
      [] c = Ord("t") -> 9
      [] OTHER -> 0

\* Whether an odd number of backslashes runs up to s[p] in the string that
\* starts at s[i]: a backslash escapes the character after it.
Escaped(s, i, p) ==
    LET run == CHOOSE r \in i..p :
                   /\ \A j \in r..(p - 1) : s[j] = Ord("\\")
                   /\ r = i \/ s[r - 1] # Ord("\\")
    IN  (p - run) % 2 = 1

\* Whether s[p] is the quote that closes the string that starts at s[i].
Closes(s, i, p) ==
    /\ s[p] = Ord("\"")
    /\ ~Escaped(s, i, p)
    /\ \A r \in i..(p - 1) : s[r] # Ord("\"") \/ Escaped(s, i, r)

\* The character of the escape at s[p], or of the plain character there: a
\* \u escape of a high surrogate followed by one of a low surrogate is one
\* character.
StringChar(s, p, esc) ==
    IF p \notin esc THEN s[p]
    ELSE IF s[p + 1] # Ord("u") THEN Unescape(s[p + 1])
    ELSE IF /\ Hex4(s, p + 2) \in 55296..56319
            /\ p + 6 \in esc
            /\ s[p + 7] = Ord("u")
            /\ Hex4(s, p + 8) \in 56320..57343
        THEN 65536 + (Hex4(s, p + 2) - 55296) * 1024 + (Hex4(s, p + 8) - 56320)
    ELSE Hex4(s, p + 2)

\* The characters at the positions at.
CharsAt(at, s, esc) == [k \in 1..Len(at) |-> StringChar(s, at[k], esc)]

\* The string s[i..e-1], whose escapes start at the positions esc.  An
\* escape that is not one of the short ones or \u and four hexadecimal
\* digits, or a control character, is an error.
StringBody(s, i, e, esc) ==
    LET isU(p) == p \in esc /\ s[p + 1] = Ord("u")
        inEscape(p) == \E q \in esc : q + 1 = p \/ (isU(q) /\ p \in (q + 1)..(q + 5))
        lowOfPair(p) ==
            /\ isU(p) /\ Hex4(s, p + 2) \in 56320..57343
            /\ isU(p - 6) /\ Hex4(s, p - 4) \in 55296..56319
        wellFormed ==
            \A p \in i..(e - 1) :
                IF p \in esc
                THEN IF s[p + 1] = Ord("u") THEN Hex4At(s, p + 2)
                     ELSE Unescape(s[p + 1]) # 0
                ELSE inEscape(p) \/ s[p] >= 32
        emits(p) == IF p \in esc THEN ~lowOfPair(p) ELSE ~inEscape(p)
    IN  IF ~wellFormed THEN PFail
        ELSE P(CharsAt(SelectSeq([k \in 1..(e - i) |-> i + k - 1], emits), s, esc),
               e + 1)

\* scanstring (strict): the text from s[i], after the opening quote, to the
\* closing quote, which is the first quote that is not escaped.
ScanStringTo(s, i, e) ==
    StringBody(s, i, e,
               {p \in i..(e - 1) : s[p] = Ord("\\") /\ ~Escaped(s, i, p)})

ScanString(s, i) ==
    IF \E p \in i..Len(s) : Closes(s, i, p)
    THEN ScanStringTo(s, i, CHOOSE p \in i..Len(s) : Closes(s, i, p))
    ELSE PFail

\* The end of the number at s[i] (the position after it), 0 when s[i] does
\* not start one: -?(0|[1-9][0-9]*)(\.[0-9]+)?([eE][-+]?[0-9]+)?
At(s, k, c) == k <= Len(s) /\ s[k] = Ord(c)
DigitAt(s, k) == k <= Len(s) /\ IsDigit(s[k])

ExponentEnd(s, e) ==
    IF ~(At(s, e, "e") \/ At(s, e, "E")) THEN e
    ELSE IF At(s, e + 1, "+") \/ At(s, e + 1, "-")
        THEN IF DigitAt(s, e + 2) THEN SkipDigits(s, e + 2) ELSE e
    ELSE IF DigitAt(s, e + 1) THEN SkipDigits(s, e + 1) ELSE e

FractionEnd(s, e) ==
    IF e = 0 THEN 0
    ELSE IF At(s, e, ".") /\ DigitAt(s, e + 1)
        THEN ExponentEnd(s, SkipDigits(s, e + 1))
    ELSE ExponentEnd(s, e)

IntegerEnd(s, j) ==
    IF At(s, j, "0") THEN j + 1 ELSE IF DigitAt(s, j) THEN SkipDigits(s, j) ELSE 0

NumberEnd(s, i) == FractionEnd(s, IntegerEnd(s, IF At(s, i, "-") THEN i + 1 ELSE i))

\* The literals of JSON, and those json.loads reads beside them.
Literal ==
    [null |-> Lit(<<"n", "u", "l", "l">>),
     true |-> Lit(<<"t", "r", "u", "e">>),
     false |-> Lit(<<"f", "a", "l", "s", "e">>),
     NaN |-> Lit(<<"N", "a", "N">>),
     Infinity |-> Lit(<<"I", "n", "f", "i", "n", "i", "t", "y">>)]

\* The result of a string scan as a value.
StringValue(r) == IF r.raised THEN PFail ELSE P(PyStr(r.val), r.i)

\* The number s[i..e-1], when there is one.
NumberValue(s, i, e) ==
    IF e # 0 THEN P(PyNum(SubSeq(s, i, e - 1)), e)
    ELSE IF StartsAt(s, i, Literal.NaN) THEN P(PyNum(Literal.NaN), i + 3)
    ELSE IF StartsAt(s, i, Literal.Infinity) THEN P(PyNum(Literal.Infinity), i + 8)
    ELSE IF StartsAt(s, i, Lit(<<"-">>) \o Literal.Infinity)
        THEN P(PyNum(Lit(<<"-">>) \o Literal.Infinity), i + 9)
    ELSE PFail

\* scan_once with JSONObject and JSONArray.
RECURSIVE ScanOnce(_, _), ScanObject(_, _), ScanArray(_, _)
RECURSIVE ScanMembers(_, _, _), MemberColon(_, _, _), MemberValue(_, _, _, _)
RECURSIVE MemberNext(_, _, _, _), MemberEnd(_, _, _)
RECURSIVE ScanElements(_, _, _), ElementNext(_, _, _), ElementEnd(_, _, _)
ScanOnce(s, i) ==
    IF i > Len(s) THEN PFail
    ELSE IF s[i] = Ord("\"") THEN StringValue(ScanString(s, i + 1))
    ELSE IF s[i] = Ord("{") THEN ScanObject(s, SkipWs(s, i + 1))
    ELSE IF s[i] = Ord("[") THEN ScanArray(s, SkipWs(s, i + 1))
    ELSE IF StartsAt(s, i, Literal.null) THEN P(PyNone, i + 4)
    ELSE IF StartsAt(s, i, Literal.true) THEN P(PyBool(TRUE), i + 4)
    ELSE IF StartsAt(s, i, Literal.false) THEN P(PyBool(FALSE), i + 5)
    ELSE NumberValue(s, i, NumberEnd(s, i))

\* An object from s[j], after the brace and the white space.
ScanObject(s, j) ==
    IF j <= Len(s) /\ s[j] = Ord("}") THEN P(PyDict(<<>>), j + 1)
    ELSE ScanMembers(s, j, <<>>)

\* An array from s[j], after the bracket and the white space.
ScanArray(s, j) ==
    IF j <= Len(s) /\ s[j] = Ord("]") THEN P(PyList(<<>>), j + 1)
    ELSE ScanElements(s, j, <<>>)

\* The members of an object from s[i], where a key must start: the key, the
\* colon, the value, then a comma and the next member or the closing brace.
ScanMembers(s, i, kvs) ==
    IF ~(i <= Len(s) /\ s[i] = Ord("\"")) THEN PFail
    ELSE MemberColon(s, kvs, ScanString(s, i + 1))

MemberColon(s, kvs, k) ==
    IF k.raised THEN PFail ELSE MemberValue(s, kvs, k.val, SkipWs(s, k.i))

MemberValue(s, kvs, key, c) ==
    IF ~(c <= Len(s) /\ s[c] = Ord(":")) THEN PFail
    ELSE MemberNext(s, kvs, key, ScanOnce(s, SkipWs(s, c + 1)))

MemberNext(s, kvs, key, x) ==
    IF x.raised THEN PFail
    ELSE MemberEnd(s, Append(kvs, <<key, x.val>>), SkipWs(s, x.i))

MemberEnd(s, kvs, e) ==
    IF e > Len(s) THEN PFail
    ELSE IF s[e] = Ord("}") THEN P(PyDict(kvs), e + 1)
    ELSE IF s[e] # Ord(",") THEN PFail
    ELSE ScanMembers(s, SkipWs(s, e + 1), kvs)

\* The elements of an array from s[i], where a value must start.
ScanElements(s, i, xs) == ElementNext(s, xs, ScanOnce(s, i))

ElementNext(s, xs, x) ==
    IF x.raised THEN PFail ELSE ElementEnd(s, Append(xs, x.val), SkipWs(s, x.i))

ElementEnd(s, xs, e) ==
    IF e > Len(s) THEN PFail
    ELSE IF s[e] = Ord("]") THEN P(PyList(xs), e + 1)
    ELSE IF s[e] # Ord(",") THEN PFail
    ELSE ScanElements(s, SkipWs(s, e + 1), xs)

\* The value of a text that holds one value and white space around it.
Whole(s, r) ==
    IF r.raised THEN Raise("JSONDecodeError")
    ELSE IF SkipWs(s, r.i) # Len(s) + 1 THEN Raise("JSONDecodeError")
    ELSE Ok(r.val)

\* json.loads(s): no byte order mark, one value, nothing but white space
\* around it.
JsonLoads(s) ==
    IF s # <<>> /\ s[1] = 65279 THEN Raise("JSONDecodeError")
    ELSE Whole(s, ScanOnce(s, SkipWs(s, 1)))

(***************************************************************************)
(* The cursor codec.                                                       *)
(***************************************************************************)
\* The keys of the cursor's payload, of the response of the search and of
\* its items.
Key ==
    [q |-> Lit(<<"q">>),
     pageToken |-> Lit(<<"p", "a", "g", "e", "T", "o", "k", "e", "n">>),
     items |-> Lit(<<"i", "t", "e", "m", "s">>),
     nextPageToken |->
         Lit(<<"n", "e", "x", "t", "P", "a", "g", "e", "T", "o", "k", "e", "n">>),
     id |-> Lit(<<"i", "d">>),
     videoId |-> Lit(<<"v", "i", "d", "e", "o", "I", "d">>),
     snippet |-> Lit(<<"s", "n", "i", "p", "p", "e", "t">>),
     title |-> Lit(<<"t", "i", "t", "l", "e">>),
     channelTitle |-> Lit(<<"c", "h", "a", "n", "n", "e", "l", "T", "i", "t", "l", "e">>),
     description |-> Lit(<<"d", "e", "s", "c", "r", "i", "p", "t", "i", "o", "n">>),
     thumbnails |-> Lit(<<"t", "h", "u", "m", "b", "n", "a", "i", "l", "s">>),
     medium |-> Lit(<<"m", "e", "d", "i", "u", "m">>),
     default |-> Lit(<<"d", "e", "f", "a", "u", "l", "t">>),
     url |-> Lit(<<"u", "r", "l">>)]

\* The bytes of the payload in URL-safe base64, as text.
B64EncodeText(bytes) ==
    IF bytes.raised THEN bytes ELSE BytesDecode(urlsafe_b64encode(bytes.val))

\* encode_offset with the token under the key page_token, which decode_offset
\* does not read.
KeySnake == Lit(<<"p", "a", "g", "e", "_", "t", "o", "k", "e", "n">>)

encode_offset_snake(query, page_token) ==
    B64EncodeText(StrEncode(JsonDumps(PyDict(<<<<Key.q, query>>,
                                               <<KeySnake, page_token>>>>))))

\* encode_offset with no cursor for no token.
encode_offset_blank(query, page_token) ==
    IF page_token = PyNone THEN Ok(<<>>)
    ELSE B64EncodeText(StrEncode(JsonDumps(PyDict(<<<<Key.q, query>>,
                                                    <<Key.pageToken, page_token>>>>))))

\* encode_offset(query, page_token): the payload as JSON, as UTF-8, in
\* URL-safe base64, as text.
encode_offset(query, page_token) ==
    B64EncodeText(StrEncode(JsonDumps(PyDict(<<<<Key.q, query>>,
                                               <<Key.pageToken, page_token>>>>))))

\* A pair of two values, or what the first of them that raised raised.
Pair(x, y) ==
    IF x.raised THEN x ELSE IF y.raised THEN y ELSE Ok(<<x.val, y.val>>)

\* The fields read under the key page_token, which encode_offset does not
\* write.
FieldsSnake(obj) ==
    IF obj.raised THEN obj ELSE Pair(Get(obj.val, Key.q), Get(obj.val, KeySnake))

\* obj.get("q"), obj.get("pageToken")
Fields(obj) ==
    IF obj.raised THEN obj
    ELSE Pair(Get(obj.val, Key.q), Get(obj.val, Key.pageToken))

\* The body of the try block of decode_offset: each step on the value of the
\* step before it, when that one did not raise.
DecodeOffsetTry(offset) ==
    LET b64decode(raw) == IF raw.raised THEN raw ELSE urlsafe_b64decode(raw.val)
        decode(bin) == IF bin.raised THEN bin ELSE BytesDecode(bin.val)
        loads(decoded) == IF decoded.raised THEN decoded ELSE JsonLoads(decoded.val)
    IN  Fields(loads(decode(b64decode(StrEncode(offset)))))

\* except ValueError: the errors of base64, of UTF-8 and of JSON, and no
\* other.
ValueErrors ==
    {"binascii.Error", "UnicodeDecodeError", "UnicodeEncodeError", "JSONDecodeError"}

ExceptValueError(r) ==
    IF r.raised /\ r.exc \in ValueErrors THEN Ok(<<PyNone, PyNone>>) ELSE r

\* except Exception: return None, None
ExceptNone(r) == IF r.raised THEN Ok(<<PyNone, PyNone>>) ELSE r

decode_offset(offset) == ExceptNone(DecodeOffsetTry(offset))

(***************************************************************************)
(* The upstream response and the result cards.                             *)
(***************************************************************************)
\* The default title and the prefix of the video URL.
DefaultTitle ==
    Lit(<<"Y", "o", "u", "T", "u", "b", "e", " ", "v", "i", "d", "e", "o">>)
YoutuBe ==
    Lit(<<"h", "t", "t", "p", "s", ":", "/", "/", "y", "o", "u", "t", "u",
          ".", "b", "e", "/">>)

RESULTS_PER_PAGE == 10
DescriptionLength == 120

\* obj.get(key, default)
GetDefault(obj, key, default) ==
    IF obj.t # "dict" THEN Raise("AttributeError")
    ELSE IF DictHas(obj.v, key) THEN Ok(DictGet(obj.v, key)) ELSE Ok(default)

\* obj[key] for a text key: a dict has it or not, nothing else takes one.
Subscript(obj, key) ==
    IF obj.t # "dict" THEN Raise("TypeError")
    ELSE IF DictHas(obj.v, key) THEN Ok(DictGet(obj.v, key)) ELSE Raise("KeyError")

\* The values a for loop over x visits: the elements of a list, the keys of
\* a dict, the characters of a str.
Iterate(x) ==
    CASE x.t = "list" -> Ok(x.v)
      [] x.t = "dict" -> Ok([k \in 1..Len(x.v) |-> PyStr(x.v[k][1])])
      [] x.t = "str" -> Ok([k \in 1..Len(x.v) |-> PyStr(<<x.v[k]>>)])
      [] OTHER -> Raise("TypeError")

\* x[:n]
Slice(x, n) ==
    IF x.t \in {"str", "list"} THEN Ok([t |-> x.t, v |-> Take(x.v, n)])
    ELSE Raise("TypeError")

\* x or y
Or(x, y) == IF Truthy(x) THEN x ELSE y

\* The text of x in an f-string, for a str, a number, a bool and None.
Format(x) ==
    CASE x.t = "str" -> x.v
      [] x.t = "number" -> x.v
      [] x.t = "NoneType" -> Lit(<<"N", "o", "n", "e">>)
      [] x.t = "bool" ->
            IF x.v = <<1>> THEN Lit(<<"T", "r", "u", "e">>)
            ELSE Lit(<<"F", "a", "l", "s", "e">>)

\* html.escape(s), quotes included.
HtmlEscapeChar(c) ==
    CASE c = Ord("&") -> Lit(<<"&", "a", "m", "p", ";">>)
      [] c = Ord("<") -> Lit(<<"&", "l", "t", ";">>)
      [] c = Ord(">") -> Lit(<<"&", "g", "t", ";">>)
      [] c = Ord("\"") -> Lit(<<"&", "q", "u", "o", "t", ";">>)
      [] c = Ord("'") -> Lit(<<"&", "#", "x", "2", "7", ";">>)
      [] OTHER -> <<c>>

HtmlEscape(s) == Concat([k \in 1..Len(s) |-> HtmlEscapeChar(s[k])])

\* The thumbnail of a snippet: the url of the medium one, of the default one
\* when there is no medium key.
GetUrl(medium) == IF medium.raised THEN medium ELSE Get(medium.val, Key.url)

ThumbMedium(thumbs, default) ==
    IF default.raised THEN default
    ELSE GetUrl(GetDefault(thumbs, Key.medium, default.val))

ThumbDefault(thumbs) ==
    IF thumbs.raised THEN thumbs
    ELSE ThumbMedium(thumbs.val, GetDefault(thumbs.val, Key.default, PyDict(<<>>)))

Thumbnail(s) == ThumbDefault(GetDefault(s, Key.thumbnails, PyDict(<<>>)))

\* (description or "")[:120]
Desc(description) ==
    IF description.raised THEN description
    ELSE Slice(Or(description.val, PyStr(<<>>)), DescriptionLength)

VideoUrl(vid) == YoutuBe \o Format(vid)

\* The card of a video.
Card(vid, title, channel, desc, thumb) ==
    [id |-> vid,
     title |-> title,
     description |-> Or(channel, desc),
     thumb_url |-> thumb,
     url |-> VideoUrl(vid),
     input_text |-> HtmlEscape(Format(title) \o <<10>> \o VideoUrl(vid)),
     parse_mode |-> "HTML"]

ItemCard(vid, title, channel, desc, thumb) ==
    IF title.raised THEN title
    ELSE IF channel.raised THEN channel
    ELSE IF desc.raised THEN desc
    ELSE IF thumb.raised THEN thumb
    ELSE Ok(<<Card(vid, title.val, channel.val, desc.val, thumb.val)>>)

\* The loop body with no default for the title.
ItemSnippetNoDefault(vid, s) ==
    IF s.raised THEN s
    ELSE ItemCard(vid,
                  Get(s.val, Key.title),
                  GetDefault(s.val, Key.channelTitle, PyStr(<<>>)),
                  Desc(Get(s.val, Key.description)),
                  Thumbnail(s.val))

ItemSnippet(vid, s) ==
    IF s.raised THEN s
    ELSE ItemCard(vid,
                  GetDefault(s.val, Key.title, PyStr(DefaultTitle)),
                  GetDefault(s.val, Key.channelTitle, PyStr(<<>>)),
                  Desc(Get(s.val, Key.description)),
                  Thumbnail(s.val))

\* The loop body without the skip of a hit that has no video id.
ItemVideoKeepAll(it, vid) ==
    IF vid.raised THEN vid ELSE ItemSnippet(vid.val, Subscript(it, Key.snippet))

ItemVideo(it, vid) ==
    IF vid.raised THEN vid
    ELSE IF ~Truthy(vid.val) THEN Ok(<<>>)
    ELSE ItemSnippet(vid.val, Subscript(it, Key.snippet))

GetVideoId(id) == IF id.raised THEN id ELSE Get(id.val, Key.videoId)

\* One turn of the loop over the items: no card for an item without a video
\* id, else the item's card.
MapItem(it) == ItemVideo(it, GetVideoId(Subscript(it, Key.id)))

\* The cards of the turns, or what the first failing turn raised.
Collect(turns) ==
    LET failed == {k \in 1..Len(turns) : turns[k].raised}
    IN  IF failed # {} THEN turns[Min(failed)]
        ELSE Ok(Concat([k \in 1..Len(turns) |-> turns[k].val]))

MapEach(its) ==
    IF its.raised THEN its
    ELSE Collect([k \in 1..Len(its.val) |-> MapItem(its.val[k])])

\* The loop over the items.
MapItems(items) == MapEach(Iterate(items))

(***************************************************************************)
(* The handler.                                                            *)
(***************************************************************************)
\* str.isspace of one character.
IsSpace(c) ==
    \/ c \in 9..13 \/ c \in 28..32 \/ c \in {133, 160, 5760}
    \/ c \in 8192..8202 \/ c \in {8232, 8233, 8239, 8287, 12288}

\* The query as typed.
NoStrip(s) == s

\* s.strip()
Strip(s) ==
    LET kept == {k \in 1..Len(s) : ~IsSpace(s[k])}
    IN  IF kept = {} THEN <<>> ELSE SubSeq(s, Min(kept), Max(kept))

\* An answer to the inline query.
Answer(results, cache_time, next_offset) ==
    [results |-> results, is_personal |-> TRUE, cache_time |-> cache_time,
     next_offset |-> next_offset]

\* The answer of the empty query and of the failed search.
EmptyAnswer == Answer(<<>>, 1, <<>>)

\* The token of the offset, whatever its query.
MatchingAny(query, d) == IF d.raised THEN d ELSE Ok(d.val[2])

\* The page token of the search: the one of the offset when the offset
\* decodes to the query, else None.
Matching(query, d) ==
    IF d.raised THEN d
    ELSE IF PyEq(d.val[1], PyStr(query)) THEN Ok(d.val[2])
    ELSE Ok(PyNone)

ContinuationToken(query, offset) ==
    IF offset = <<>> THEN Ok(PyNone) ELSE Matching(query, decode_offset(offset))

\* Whether the handler answers without a search.
EmptyQuery(query) == query = <<>>

\* A key a dict does not hold.
Absent == [t |-> "absent", v |-> <<>>]

\* The parameters without the page token.
SearchParamsFirstPage(query, page_token, max_results) ==
    [q |-> query, maxResults |-> max_results, pageToken |-> Absent]

\* The parameters of the search request: pageToken only for a true token.
SearchParams(query, page_token, max_results) ==
    [q |-> query, maxResults |-> max_results,
     pageToken |-> IF Truthy(page_token) THEN page_token ELSE Absent]

\* The next_offset that is the token itself.
NextOffsetToken(query, next_token) ==
    IF Truthy(next_token) THEN Ok(next_token.v) ELSE Ok(<<>>)

\* The next_offset that is a cursor whatever the token.
NextOffsetAlways(query, next_token) == encode_offset(PyStr(query), next_token)

\* The next_offset of a page.
NextOffset(query, next_token) ==
    IF Truthy(next_token) THEN encode_offset(PyStr(query), next_token)
    ELSE Ok(<<>>)

\* The answer to a search that returned data.
AnswerPage(results, next_offset) ==
    IF next_offset.raised THEN next_offset
    ELSE Ok(Answer(results, 30, next_offset.val))

PageOf(query, results, next_token) ==
    IF results.raised THEN results
    ELSE AnswerPage(results.val, NextOffset(query, next_token))

MapPage(query, items, next_token) ==
    IF items.raised THEN items
    ELSE IF next_token.raised THEN next_token
    ELSE PageOf(query, MapItems(items.val), next_token.val)

MappedPage(query, data) ==
    MapPage(query, GetDefault(data, Key.items, PyList(<<>>)),
            GetDefault(data, Key.nextPageToken, PyStr(<<>>)))

\* The error of the search, passed on.
SearchReraised(exc) == Raise(exc)

\* What the handler does with a search that raised: it answers nothing found.
SearchFailed(exc) == Ok(EmptyAnswer)

(***************************************************************************)
(* The inputs: the queries a user types, the offsets the platform sends    *)
(* and the responses of the search API.                                    *)
(***************************************************************************)
MaxQueryLen == 2
MaxTextLen == 2

\* The texts of at most n characters of an alphabet.
Texts(alphabet, n) == UNION {[1..k -> alphabet] : k \in 0..n}

\* What a user types: letters and spaces, and a character JSON must escape.
RawQueries ==
    Texts({Ord("a"), Ord(" ")}, MaxQueryLen) \cup {<<Ord("\"")>>, <<Ord(" "), Ord("\"")>>}

\* The continuation tokens of the search API.
TokenT == PyStr(Lit(<<"T">>))
TokenU == PyStr(Lit(<<"U">>))
Tokens == {TokenT, TokenU}

\* The text of a payload in URL-safe base64.
B64Text(payload) == BytesDecode(urlsafe_b64encode(StrEncode(payload).val)).val

\* Offsets that no answer of the handler carried: cursors of the handler's
\* own form, a cursor cut short, text that is not base64, and payloads of
\* another shape (no token, a token that is a number, an array).
ForeignOffsets ==
    LET a == PyStr(Lit(<<"a">>))
        cursor == encode_offset(a, TokenT).val
    IN  { cursor,
          encode_offset(a, PyNone).val,
          encode_offset(a, PyStr(<<>>)).val,
          Take(cursor, Len(cursor) - 3),
          Lit(<<"!", "!">>),
          B64Text(Lit(<<"{", "\"", "q", "\"", ":", " ", "\"", "a", "\"", "}">>)),
          B64Text(Lit(<<"{", "\"", "q", "\"", ":", " ", "\"", "a", "\"", ",", " ",
                        "\"", "p", "a", "g", "e", "T", "o", "k", "e", "n", "\"",
                        ":", " ", "5", "}">>)),
          B64Text(Lit(<<"[", "1", "]">>)) }

\* A search hit, as the API returns it.
Snippet ==
    PyDict(<< <<Key.title, PyStr(Lit(<<"t">>))>>,
              <<Key.channelTitle, PyStr(Lit(<<"c">>))>>,
              <<Key.description, PyStr(Lit(<<"d">>))>>,
              <<Key.thumbnails,
                PyDict(<< <<Key.medium, PyDict(<< <<Key.url, PyStr(Lit(<<"m">>))>> >>)>>,
                          <<Key.default, PyDict(<< <<Key.url, PyStr(Lit(<<"s">>))>> >>)>>
                       >>)>> >>)

Item(vid) ==
    PyDict(<< <<Key.id, PyDict(<< <<Key.videoId, PyStr(vid)>> >>)>>,
              <<Key.snippet, Snippet>> >>)

\* Hits out of shape: no video id, no id, no snippet.
ItemNoVideoId == PyDict(<< <<Key.id, PyDict(<<>>)>>, <<Key.snippet, Snippet>> >>)
ItemNoId == PyDict(<< <<Key.snippet, Snippet>> >>)
ItemNoSnippet ==
    PyDict(<< <<Key.id, PyDict(<< <<Key.videoId, PyStr(Lit(<<"v">>))>> >>)>> >>)

\* A response body: the items, and the next page token when there is one.
Page(items, token) ==
    PyDict(<< <<Key.items, PyList(items)>> >> \o
           (IF token = Absent THEN <<>> ELSE << <<Key.nextPageToken, token>> >>))

\* The bodies the search returns: pages in shape, with and without a next
\* page, and bodies out of shape.
WellFormedResponses ==
    { Page(<<>>, Absent),
      Page(<<Item(Lit(<<"v">>))>>, TokenT),
      Page(<<ItemNoVideoId, Item(Lit(<<"w">>))>>, TokenU),
      Page(<<Item(Lit(<<"v">>))>>, PyStr(<<>>)),
      PyDict(<<>>) }

MalformedResponses ==
    { PyList(<<>>),
      Page(<<ItemNoSnippet>>, Absent),
      Page(<<Item(Lit(<<"v">>)), ItemNoId>>, TokenT) }

\* More pages in shape: one of more hits than were asked for, one of hits
\* whose snippets lack fields, and one whose medium thumbnail has no url.
VariedResponses ==
    LET url(u) == PyDict(<< <<Key.url, PyStr(Lit(<<u>>))>> >>)
        hit(vid, snippet) ==
            PyDict(<< <<Key.id, PyDict(<< <<Key.videoId, PyStr(Lit(<<vid>>))>> >>)>>,
                      <<Key.snippet, PyDict(snippet)>> >>)
        title == <<Key.title, PyStr(Lit(<<"t">>))>>
    IN  { Page([k \in 1..(RESULTS_PER_PAGE + 1) |-> Item(Lit(<<"v">>))], TokenT),
          Page(<< hit("x", << <<Key.thumbnails,
                                PyDict(<< <<Key.default, url("s")>> >>)>> >>),
                  ItemNoVideoId,
                  hit("y", <<title>>),
                  hit("z", <<title,
                             <<Key.thumbnails,
                               PyDict(<< <<Key.medium, url("m")>> >>)>> >>) >>,
               Absent),
          Page(<< hit("o", <<title,
                             <<Key.thumbnails,
                               PyDict(<< <<Key.medium, PyDict(<<>>)>>,
                                         <<Key.default, url("s")>> >>)>> >>) >>,
               Absent) }

Responses == WellFormedResponses \cup MalformedResponses \cup VariedResponses

(***************************************************************************)
(* The state.                                                              *)
(***************************************************************************)
VARIABLES
    inv,        \* the invocations of inline_query_handler
    platform,   \* the last cursor the platform holds, and the page it is of
    codec       \* the codec applied on its own

vars == <<inv, platform, codec>>

\* The invocations in flight: the handler keeps no state of its own between
\* invocations, and shares none.
Invocations == {1}

\* An invocation that has not started.
Idle ==
    [pc |-> "idle", iq_query |-> <<>>, iq_offset |-> <<>>, query |-> <<>>,
     page_token |-> PyNone, requests |-> <<>>, outcome |-> "none",
     data |-> PyNone, answers |-> <<>>, exc |-> ""]

NoCursor == [q |-> <<>>, token |-> PyNone, offset |-> <<>>]

CodecIdle ==
    [pc |-> "idle", via |-> "", query |-> <<>>, token |-> PyNone, text |-> <<>>,
     genuine |-> FALSE, result |-> Ok(<<>>)]

Init ==
    /\ inv = [i \in Invocations |-> Idle]
    /\ platform = NoCursor
    /\ codec = CodecIdle

(***************************************************************************)
(* inline_query_handler.                                                   *)
(***************************************************************************)
\* The handler up to its await of youtube_search: it strips the query,
\* resolves the continuation, and answers the empty query at once.
Resolved(slot, page_token) ==
    IF page_token.raised
    THEN [slot EXCEPT !.pc = "raised", !.exc = page_token.exc]
    ELSE IF EmptyQuery(slot.query)
    THEN [slot EXCEPT !.pc = "done", !.page_token = page_token.val,
                      !.answers = <<EmptyAnswer>>]
    ELSE [slot EXCEPT !.pc = "searching", !.page_token = page_token.val,
                      !.requests = <<SearchParams(slot.query, page_token.val,
                                                  RESULTS_PER_PAGE)>>]

Begun(slot, query, offset) ==
    Resolved([slot EXCEPT !.query = query], ContinuationToken(query, offset))

\* The handler with its query in a variable of the module, which every
\* invocation that is searching reads after the write of the last one.
StartShared(i, iq_query, iq_offset) ==
    /\ inv[i].pc = "idle"
    /\ inv' = [j \in DOMAIN inv |->
            IF j = i
            THEN Begun([inv[j] EXCEPT !.iq_query = iq_query, !.iq_offset = iq_offset],
                       Strip(Or(PyStr(iq_query), PyStr(<<>>)).v),
                       Or(PyStr(iq_offset), PyStr(<<>>)).v)
            ELSE IF inv[j].pc = "searching"
            THEN [inv[j] EXCEPT !.query = Strip(iq_query)]
            ELSE inv[j]]
    /\ UNCHANGED <<platform, codec>>

Start(i, iq_query, iq_offset) ==
    /\ inv[i].pc = "idle"
    /\ inv' = [inv EXCEPT ![i] =
            Begun([@ EXCEPT !.iq_query = iq_query, !.iq_offset = iq_offset],
                  Strip(Or(PyStr(iq_query), PyStr(<<>>)).v),
                  Or(PyStr(iq_offset), PyStr(<<>>)).v)]
    /\ UNCHANGED <<platform, codec>>

\* The invocation after the handler answered, or raised.
Answered(slot, answer) ==
    IF answer.raised THEN [slot EXCEPT !.pc = "raised", !.exc = answer.exc]
    ELSE [slot EXCEPT !.pc = "done", !.answers = Append(@, answer.val)]

\* The cursor of an answer, which the platform keeps for the next page.
Kept(query, data, answer) ==
    IF answer.raised \/ answer.val.next_offset = <<>> THEN platform
    ELSE [q |-> query, token |-> DictGet(data.v, Key.nextPageToken),
          offset |-> answer.val.next_offset]

Deliver(i, data, page) ==
    /\ inv' = [inv EXCEPT ![i] =
            Answered([@ EXCEPT !.outcome = "returned", !.data = data], page)]
    /\ platform' = Kept(inv[i].query, data, page)

\* youtube_search returns data: the handler maps it and answers the page, or
\* raises what the mapping raised.
SearchReturns(i, data) ==
    /\ inv[i].pc = "searching"
    /\ Deliver(i, data, MappedPage(inv[i].query, data))
    /\ UNCHANGED codec

\* youtube_search raises and the handler searches once more before it gives
\* up.
SearchRetries(i) ==
    /\ inv[i].pc = "searching"
    /\ inv' = [inv EXCEPT ![i] =
            IF Len(@.requests) < 2 THEN [@ EXCEPT !.requests = Append(@, @[1])]
            ELSE Answered([@ EXCEPT !.outcome = "raised"],
                          SearchFailed("RequestException"))]
    /\ UNCHANGED <<platform, codec>>

\* youtube_search raises (no connection, a timeout, a status that is not a
\* success, a body that is not JSON): the handler answers nothing found.
SearchRaises(i) ==
    /\ inv[i].pc = "searching"
    /\ inv' = [inv EXCEPT ![i] =
            Answered([@ EXCEPT !.outcome = "raised"],
                     SearchFailed("RequestException"))]
    /\ UNCHANGED <<platform, codec>>

\* The invocation is over and its frame is gone.
Return(i) ==
    /\ inv[i].pc \in {"done", "raised"}
    /\ inv' = [inv EXCEPT ![i] = Idle]
    /\ UNCHANGED <<platform, codec>>

\* The offsets the platform may send: none, the cursor it holds, or any text.
Offsets == {<<>>, platform.offset} \cup ForeignOffsets

Next ==
    \/ \E i \in DOMAIN inv, q \in RawQueries, o \in Offsets : Start(i, q, o)
    \/ \E i \in DOMAIN inv, data \in Responses : SearchReturns(i, data)
    \/ \E i \in DOMAIN inv : SearchRaises(i)
    \/ \E i \in DOMAIN inv : Return(i)

Spec == Init /\ [][Next]_vars

(***************************************************************************)
(* The codec on its own: encode_offset and decode_offset applied to the    *)
(* queries and tokens of a page, and decode_offset to any text.            *)
(***************************************************************************)
\* The characters of a query: a letter, one JSON escapes, one of two bytes in
\* UTF-8 and one outside the basic plane, which JSON writes as a pair of
\* surrogates.
CodecQueries == Texts({Ord("a"), Ord("\""), 233, 128512}, MaxTextLen)

\* The tokens of a page: none, the empty one, and tokens.
CodecTokens == {PyNone, PyStr(<<>>), TokenT, PyStr(<<233, Ord("_"), Ord("-")>>)}

\* Texts that are no cursor: short ones of any character, bytes that are not
\* UTF-8, and payloads that are JSON and no object.
ForeignTexts ==
    ForeignOffsets \cup Texts({Ord("a"), Ord("="), Ord("!"), 233}, MaxTextLen) \cup
    { Lit(<<"_", "w", "=", "=">>),
      B64Text(Lit(<<"{", "}">>)),
      B64Text(Lit(<<"\"", "s", "\"">>)),
      B64Text(Lit(<<"n", "u", "l", "l">>)),
      B64Text(Lit(<<"{", "\"", "p", "a", "g", "e", "T", "o", "k", "e", "n", "\"",
                    ":", " ", "\"", "T", "\"", "}">>)) }

\* How many characters a cursor may lose.
MaxCut == 3

Encoded(via, q, t, r) ==
    [pc |-> IF r.raised THEN "failed" ELSE "encoded", via |-> via, query |-> q,
     token |-> t, text |-> r.val, genuine |-> ~r.raised, result |-> Ok(<<>>)]

\* encode_offset(q, t)
CodecEncode(q, t) ==
    /\ codec.pc = "idle"
    /\ codec' = Encoded("encode_offset", q, t, encode_offset(PyStr(q), t))
    /\ UNCHANGED <<inv, platform>>

\* The next_offset of the handler for the query q and the next token t.
CodecNextOffset(q, t) ==
    /\ codec.pc = "idle"
    /\ codec' = Encoded("next_offset", q, t, NextOffset(q, t))
    /\ UNCHANGED <<inv, platform>>

\* A text that did not come from encode_offset.
CodecForeign(text) ==
    /\ codec.pc = "idle"
    /\ codec' = [CodecIdle EXCEPT !.pc = "encoded", !.via = "foreign",
                                  !.text = text]
    /\ UNCHANGED <<inv, platform>>

\* A cursor cut short on its way.
CodecTruncate(k) ==
    /\ codec.pc = "encoded"
    /\ codec.genuine
    /\ k <= Len(codec.text)
    /\ codec' = [codec EXCEPT !.text = Take(@, Len(@) - k), !.genuine = FALSE]
    /\ UNCHANGED <<inv, platform>>

\* decode_offset(text)
CodecDecode ==
    /\ codec.pc = "encoded"
    /\ codec' = [codec EXCEPT !.pc = "decoded", !.result = decode_offset(codec.text)]
    /\ UNCHANGED <<inv, platform>>

CodecReset ==
    /\ codec.pc \in {"decoded", "failed"}
    /\ codec' = CodecIdle
    /\ UNCHANGED <<inv, platform>>

CodecNext ==
    \/ \E q \in CodecQueries, t \in CodecTokens : CodecEncode(q, t)
    \/ \E q \in CodecQueries, t \in CodecTokens : CodecNextOffset(q, t)
    \/ \E text \in ForeignTexts : CodecForeign(text)
    \/ \E k \in 1..MaxCut : CodecTruncate(k)
    \/ CodecDecode
    \/ CodecReset

CodecSpec == Init /\ [][CodecNext]_vars

(***************************************************************************)
(* Invocations in flight together: the event loop runs a handler up to its *)
(* await of youtube_search and lets another one run meanwhile; the         *)
(* searches return or raise in any order.                                  *)
(***************************************************************************)
MaxConc == 2

ConcInit ==
    /\ inv = [i \in 1..MaxConc |-> Idle]
    /\ platform = NoCursor
    /\ codec = CodecIdle

ConcNext ==
    \/ \E i \in DOMAIN inv :
         \E q \in {<<Ord(" "), Ord("a")>>, <<Ord("\"")>>} :
         \E o \in {<<>>, encode_offset(PyStr(Lit(<<"a">>)), TokenT).val} :
            Start(i, q, o)
    \/ \E i \in DOMAIN inv :
         \E data \in {Page(<<Item(Lit(<<"v">>))>>, TokenT), Page(<<>>, Absent)} :
            SearchReturns(i, data)
    \/ \E i \in DOMAIN inv : SearchRaises(i)

ConcSpec == ConcInit /\ [][ConcNext]_vars

(***************************************************************************)
(* The properties.                                                         *)
(***************************************************************************)
\* The search request of an invocation that made one.
Request(i) == inv[i].requests[1]
Searched == {i \in DOMAIN inv : inv[i].requests # <<>>}

\* An answer with no results and no next page.
EmptyPage(answer) == answer.results = <<>> /\ answer.next_offset = <<>>

\* C1: for every non-empty query Q and every non-empty token T,
\* decode_offset(encode_offset(Q, T)) is the pair (Q, T).
C1_RoundTrip ==
    (/\ codec.pc = "decoded"
     /\ codec.via = "encode_offset"
     /\ codec.genuine
     /\ codec.query # <<>>
     /\ Truthy(codec.token))
    => codec.result = Ok(<<PyStr(codec.query), codec.token>>)

\* A cursor of a query that JSON writes with escapes, decoded.
C1_Witness ==
    /\ codec.pc = "decoded"
    /\ codec.via = "encode_offset"
    /\ codec.genuine
    /\ codec.query = <<Ord("\""), 128512>>
    /\ codec.token = PyStr(<<233, Ord("_"), Ord("-")>>)
    /\ codec.result = Ok(<<PyStr(codec.query), codec.token>>)

\* C2: a request with the query Q (as the handler trims it) and an offset
\* that is the cursor of (Q, T) searches with the page token T.
C2_ContinuationPassed ==
    \A i \in Searched : \A T \in Tokens :
        inv[i].iq_offset = encode_offset(PyStr(inv[i].query), T).val
        => /\ inv[i].page_token = T
           /\ Request(i).q = inv[i].query
           /\ Request(i).pageToken = T

\* A query typed with spaces around it continues the page of its cursor.
C2_Witness ==
    \E i \in Searched :
        /\ inv[i].iq_query # inv[i].query
        /\ inv[i].iq_offset = encode_offset(PyStr(inv[i].query), TokenT).val
        /\ Request(i).pageToken = TokenT

\* C3: a request with a non-empty query Q2 and an offset that is the cursor
\* of another query, or that does not decode, searches with no page token;
\* a page token is only ever sent with the query of its cursor.
C3_NoForeignToken ==
    \A i \in Searched :
        LET d == DecodeOffsetTry(inv[i].iq_offset)
            same == /\ ~d.raised
                    /\ d.val[1].t = "str"
                    /\ d.val[1].v = inv[i].query
        IN  /\ (inv[i].iq_offset # <<>> /\ ~same)
               => inv[i].page_token = PyNone /\ Request(i).pageToken = Absent
            /\ Request(i).pageToken # Absent
               => same /\ Request(i).pageToken = d.val[2]
                       /\ Request(i).q = inv[i].query

\* The cursor of one query sent with another query: the search is of the
\* first page.
C3_Witness ==
    \E i \in Searched :
        LET d == DecodeOffsetTry(inv[i].iq_offset)
        IN  /\ ~d.raised
            /\ d.val[1].t = "str"
            /\ d.val[1].v # inv[i].query
            /\ d.val[2] = TokenT
            /\ Request(i).pageToken = Absent

\* C4: when an invocation for the query Q got the token T from the search
\* and answered the next_offset N, a later invocation with the query Q and
\* the offset N searches with the page token T.
C4_Pagination ==
    \A i \in Searched :
        (/\ inv[i].pc = "searching"
         /\ platform.offset # <<>>
         /\ inv[i].iq_offset = platform.offset
         /\ inv[i].query = platform.q)
        => Request(i).pageToken = platform.token

\* The second page of a query that JSON writes with an escape.
C4_Witness ==
    \E i \in Searched :
        /\ inv[i].pc = "searching"
        /\ platform.offset # <<>>
        /\ inv[i].iq_offset = platform.offset
        /\ inv[i].query = platform.q
        /\ Ord("\"") \in {inv[i].query[k] : k \in 1..Len(inv[i].query)}
        /\ Request(i).pageToken = TokenU

\* C5: whatever the offset, a request whose query is empty or only spaces
\* makes no search and is answered with no results and no next_offset.
C5_EmptyQueryShortCircuit ==
    \A i \in DOMAIN inv :
        (/\ inv[i].pc # "idle"
         /\ \A k \in 1..Len(inv[i].iq_query) : IsSpace(inv[i].iq_query[k]))
        => /\ inv[i].pc = "done"
           /\ inv[i].requests = <<>>
           /\ Len(inv[i].answers) = 1
           /\ EmptyPage(inv[i].answers[1])

\* A query of spaces with a cursor for offset.
C5_Witness ==
    \E i \in DOMAIN inv :
        /\ inv[i].pc = "done"
        /\ inv[i].iq_query = <<Ord(" "), Ord(" ")>>
        /\ inv[i].iq_offset = encode_offset(PyStr(Lit(<<"a">>)), TokenT).val
        /\ inv[i].requests = <<>>
        /\ inv[i].answers = <<EmptyAnswer>>

\* C6: when the search raises, the invocation answers no results and no
\* next_offset, and the handler raises nothing.
C6_SearchFailureIsolated ==
    \A i \in DOMAIN inv :
        inv[i].outcome = "raised"
        => /\ inv[i].pc = "done"
           /\ inv[i].exc = ""
           /\ Len(inv[i].answers) = 1
           /\ EmptyPage(inv[i].answers[1])

\* The search of a second page raised.
C6_Witness ==
    \E i \in Searched :
        /\ inv[i].outcome = "raised"
        /\ inv[i].pc = "done"
        /\ Request(i).pageToken = TokenT
        /\ inv[i].answers = <<EmptyAnswer>>

\* C7: no error leaves the handler: whatever the query, the offset and the
\* outcome of the search, a body out of shape included, the invocation
\* answers a page and raises nothing.
C7_NoErrorEscapes ==
    \A i \in DOMAIN inv :
        /\ inv[i].pc # "raised"
        /\ inv[i].pc = "done" => Len(inv[i].answers) = 1

\* C8: decode_offset raises on no text; it returns a pair.
C8_DecodeNeverRaises ==
    codec.pc = "decoded"
    => ~codec.result.raised /\ Len(codec.result.val) = 2

\* A text whose payload is JSON and no object: the get of the fields fails,
\* and decode_offset returns the pair of None.
C8_Witness ==
    /\ codec.pc = "decoded"
    /\ DecodeOffsetTry(codec.text).raised
    /\ DecodeOffsetTry(codec.text).exc = "AttributeError"
    /\ codec.result = Ok(<<PyNone, PyNone>>)

\* A text is a cursor when encode_offset returns it for some query and some
\* token or no token: it then decodes to them, and they encode to it.
IsCursor(text) ==
    LET d == DecodeOffsetTry(text)
    IN  /\ ~d.raised
        /\ d.val[1].t = "str"
        /\ d.val[2].t \in {"str", "NoneType"}
        /\ encode_offset(d.val[1], d.val[2]) = Ok(text)

\* C9: for every text that is not a well-formed cursor, a payload of
\* another shape or with a field missing included, decode_offset returns
\* the pair (absent, absent).
C9_MalformedIsAbsent ==
    (codec.pc = "decoded" /\ ~IsCursor(codec.text))
    => codec.result = Ok(<<PyNone, PyNone>>)

\* C10, as the spec has it: encode_offset(Q, absent) is the empty text.
C10_AbsentEncodesEmpty ==
    (/\ codec.pc \in {"encoded", "decoded"}
     /\ codec.via = "encode_offset"
     /\ codec.genuine
     /\ codec.token = PyNone)
    => codec.text = <<>>

\* C10, amended: encode_offset(Q, absent) is a cursor, not empty, that
\* decode_offset reads as (Q, absent); the empty next_offset of a page with
\* no next token is the handler's, which does not call encode_offset then.
C10_AbsentEncodesCursor ==
    /\ (/\ codec.pc \in {"encoded", "decoded"}
        /\ codec.via = "encode_offset"
        /\ codec.genuine
        /\ codec.token = PyNone)
       => /\ codec.text # <<>>
          /\ codec.pc = "decoded"
             => codec.result = Ok(<<PyStr(codec.query), PyNone>>)
    /\ (/\ codec.pc \in {"encoded", "decoded"}
        /\ codec.via = "next_offset"
        /\ codec.genuine
        /\ ~Truthy(codec.token))
       => codec.text = <<>>

\* The cursor of a query and no token, decoded.
C10_Witness ==
    /\ codec.pc = "decoded"
    /\ codec.via = "encode_offset"
    /\ codec.genuine
    /\ codec.token = PyNone
    /\ codec.query = <<Ord("a"), 233>>
    /\ codec.text # <<>>
    /\ codec.result = Ok(<<PyStr(codec.query), PyNone>>)

\* The invocations that answered a page of a search that returned, with the
\* hits of the response, the video id of a hit, the hits that have one, and
\* the cards answered.
Mapped == {i \in DOMAIN inv : inv[i].pc = "done" /\ inv[i].outcome = "returned"}
Hits(i) ==
    IF DictHas(inv[i].data.v, Key.items) THEN DictGet(inv[i].data.v, Key.items).v
    ELSE <<>>
VideoId(it) == DictGet(DictGet(it.v, Key.id).v, Key.videoId)
Identified(i) ==
    LET identified(it) == Truthy(VideoId(it)) IN SelectSeq(Hits(i), identified)
Cards(i) == inv[i].answers[1].results

\* C11: no answered page has more cards than the page size, also when the
\* response has more hits than the page size.
C11_PageSizeCap ==
    \A i \in DOMAIN inv : \A k \in 1..Len(inv[i].answers) :
        Len(inv[i].answers[k].results) <= RESULTS_PER_PAGE

\* C12: the cards of an answered page are the hits that have a video id, in
\* the order of the response, each with the id of its hit; the hits without
\* one are left out.
C12_IdentifiedItemsKept ==
    \A i \in Mapped :
        /\ Len(Cards(i)) = Len(Identified(i))
        /\ \A k \in 1..Len(Cards(i)) : Cards(i)[k].id = VideoId(Identified(i)[k])

\* A page of four hits, one without a video id, answered with three cards.
C12_Witness ==
    \E i \in Mapped :
        /\ Len(Hits(i)) = 4
        /\ Len(Cards(i)) = 3
        /\ Cards(i)[3].id = PyStr(Lit(<<"z">>))

\* C13: after a search for the query Q that returned, the next_offset
\* answered is encode_offset(Q, T) when the response has the token T, and
\* the empty text when it has no token.
C13_NextOffset ==
    \A i \in Mapped :
        LET has == DictHas(inv[i].data.v, Key.nextPageToken)
            T == DictGet(inv[i].data.v, Key.nextPageToken)
        IN  /\ (has /\ Truthy(T))
               => inv[i].answers[1].next_offset =
                      encode_offset(PyStr(inv[i].query), T).val
            /\ ~has => inv[i].answers[1].next_offset = <<>>

\* A page with the token U, of a query typed with a space before it.
C13_Witness ==
    \E i \in Mapped :
        /\ inv[i].iq_query # inv[i].query
        /\ DictGet(inv[i].data.v, Key.nextPageToken) = TokenU
        /\ inv[i].answers[1].next_offset # <<>>
        /\ inv[i].answers[1].next_offset =
               encode_offset(PyStr(inv[i].query), TokenU).val

\* C14: every answer is personal; its cache time is 1 when it has no
\* results and 30 only when it has some, also after a search that returned
\* no hit to show.
C14_CacheTimes ==
    \A i \in DOMAIN inv : \A k \in 1..Len(inv[i].answers) :
        LET answer == inv[i].answers[k]
        IN  /\ answer.is_personal
            /\ answer.results = <<>> => answer.cache_time = 1
            /\ answer.cache_time = 30 => answer.results # <<>>
            /\ answer.cache_time \in {1, 30}

\* C15: an invocation searches at most once: not again after the search
\* raised, not again after it returned.
C15_OneSearch ==
    \A i \in DOMAIN inv :
        /\ Len(inv[i].requests) <= 1
        /\ inv[i].outcome # "none" => Len(inv[i].requests) = 1

\* A first page whose search raised: one request was made.
C15_Witness ==
    \E i \in DOMAIN inv :
        /\ inv[i].outcome = "raised"
        /\ inv[i].pc = "done"
        /\ Len(inv[i].requests) = 1
        /\ inv[i].requests[1].pageToken = Absent

\* C16: an invocation whose search returned or raised ends in a page
\* answered, and answers once: not zero times, not twice.
C16_AnswersExactlyOnce ==
    \A i \in DOMAIN inv :
        /\ inv[i].pc \in {"done", "raised"} => Len(inv[i].answers) = 1
        /\ inv[i].outcome # "none" => inv[i].pc = "done"

\* C18: every next_offset answered that is not empty decodes to the trimmed
\* query of its invocation and a token that is not empty; a response whose
\* nextPageToken is the empty text is answered as the last page.
C18_CursorInvariant ==
    \A i \in Mapped :
        LET next_offset == inv[i].answers[1].next_offset
            d == decode_offset(next_offset)
            Q == inv[i].query
        IN  /\ next_offset # <<>>
               => /\ d.val[1] = PyStr(Q)
                  /\ ~IsSpace(Q[1]) /\ ~IsSpace(Q[Len(Q)])
                  /\ \E a \in 0..Len(inv[i].iq_query) :
                        SubSeq(inv[i].iq_query, a + 1, a + Len(Q)) = Q
                  /\ d.val[2].t = "str"
                  /\ d.val[2].v # <<>>
                  /\ d.val[2] = DictGet(inv[i].data.v, Key.nextPageToken)
            /\ ~Truthy(DictGet(inv[i].data.v, Key.nextPageToken))
               => next_offset = <<>>

\* A page whose nextPageToken is the empty text, answered as the last one.
C18_Witness ==
    \E i \in Mapped :
        /\ DictHas(inv[i].data.v, Key.nextPageToken)
        /\ DictGet(inv[i].data.v, Key.nextPageToken) = PyStr(<<>>)
        /\ Len(Cards(i)) = 1
        /\ inv[i].answers[1].next_offset = <<>>

\* The snippet of a hit, and the url of its thumbnail of a size, None when
\* it has none.
SnippetOf(it) == DictGet(it.v, Key.snippet)
ThumbUrl(it, size) ==
    LET snippet == SnippetOf(it).v
        thumbs == IF DictHas(snippet, Key.thumbnails)
                  THEN DictGet(snippet, Key.thumbnails).v ELSE <<>>
    IN  IF DictHas(thumbs, size) /\ DictHas(DictGet(thumbs, size).v, Key.url)
        THEN DictGet(DictGet(thumbs, size).v, Key.url)
        ELSE PyNone

\* C19, as the spec has it: the card of a hit whose snippet has no title has
\* the title "untitled".
C19_TitleUntitled ==
    \A i \in Mapped : \A k \in 1..Len(Cards(i)) :
        ~DictHas(SnippetOf(Identified(i)[k]).v, Key.title)
        => Cards(i)[k].title = PyStr(Lit(<<"u", "n", "t", "i", "t", "l", "e", "d">>))

\* C19, amended: the card of a hit whose snippet has no title has the title
\* "YouTube video".
C19_TitleYouTubeVideo ==
    \A i \in Mapped : \A k \in 1..Len(Cards(i)) :
        ~DictHas(SnippetOf(Identified(i)[k]).v, Key.title)
        => Cards(i)[k].title =
               PyStr(Lit(<<"Y", "o", "u", "T", "u", "b", "e", " ",
                           "v", "i", "d", "e", "o">>))

\* A page whose first hit has no title, next to hits that have one.
C19_Witness ==
    \E i \in Mapped :
        /\ Len(Cards(i)) = 3
        /\ ~DictHas(SnippetOf(Identified(i)[1]).v, Key.title)
        /\ Cards(i)[1].title.v[1] = Ord("Y")
        /\ Cards(i)[2].title = PyStr(Lit(<<"t">>))

\* C20: the thumbnail of a card is the url of the medium thumbnail of its
\* hit when that has one, else the url of the default one when that has
\* one, and none only when neither has a url.
C20_ThumbnailChain ==
    \A i \in Mapped : \A k \in 1..Len(Cards(i)) :
        LET medium == ThumbUrl(Identified(i)[k], Key.medium)
            default == ThumbUrl(Identified(i)[k], Key.default)
        IN  Cards(i)[k].thumb_url =
                IF medium # PyNone THEN medium
                ELSE IF default # PyNone THEN default
                ELSE PyNone

\* An invocation run with no other one: where it is with its query, its
\* offset and the outcome of its search.
Alone(iq_query, iq_offset, outcome, data) ==
    LET begun == Begun([Idle EXCEPT !.iq_query = iq_query, !.iq_offset = iq_offset],
                       Strip(iq_query), iq_offset)
    IN  CASE outcome = "none" -> begun
          [] outcome = "returned" ->
                Answered([begun EXCEPT !.outcome = "returned", !.data = data],
                         MappedPage(begun.query, data))
          [] outcome = "raised" ->
                Answered([begun EXCEPT !.outcome = "raised"], Ok(EmptyAnswer))

=============================================================================
